---- MODULE Spec2Model ----
(***************************************************************************)
(* The PrintPal client (class PrintPal): the request dispatcher and its    *)
(* mapping of HTTP status codes to typed errors, the quality/format        *)
(* validation, the account calls, the three submit operations, getStatus,  *)
(* the polling loop of waitForCompletion, download and the composite calls *)
(* waitAndDownload and generateAndDownload.  One caller drives one client; *)
(* every await of the code is a point where the model waits for the remote *)
(* service's answer.                                                       *)
(*                                                                         *)
(* An optional value (a TypeScript `x?: T`) is a sequence of length 0 or   *)
(* 1: None is `undefined`, Some(v) is the value v.                         *)
(*                                                                         *)
(* A record constructor lists its fields in the order in which the field   *)
(* names first occur in this module, which is the order the model checker  *)
(* keeps records in: its worker threads then never reorder a shared record.*)
(***************************************************************************)
EXTENDS Integers, Sequences, FiniteSets, TLC

None == <<>>
Some(x) == <<x>>
OrDefault(o, d) == IF o = None THEN d ELSE o[1]

\* JavaScript truthiness of an optional string / of an optional number.
TruthyStr(o) == o # None /\ o[1] # ""
TruthyNum(o) == o # None /\ o[1] # 0

(***************************************************************************)
(* types.ts                                                                *)
(***************************************************************************)
Quality ==
  {"default", "high", "ultra", "super", "super_texture", "superplus",
   "superplus_texture"}

Format == {"stl", "glb", "obj", "ply", "fbx"}

GENERATION_TIMEOUTS ==
  [q \in Quality |->
     CASE q = "default" -> 120
       [] q = "high" -> 180
       [] q = "ultra" -> 300
       [] q = "super" -> 360
       [] q = "super_texture" -> 600
       [] q = "superplus" -> 480
       [] q = "superplus_texture" -> 600]

(***************************************************************************)
(* errors.ts: every error is a record of one shape; a field a class does   *)
(* not set is None.                                                        *)
(***************************************************************************)
PrintPalError(message, statusCode, response) ==
  [message |-> message, statusCode |-> statusCode, response |-> response,
   name |-> "PrintPalError", creditsRequired |-> None, creditsAvailable |-> None,
   retryAfter |-> None, errors |-> None, generationUid |-> None]

AuthenticationError(message) ==
  [PrintPalError(message, Some(401), None) EXCEPT !.name = "AuthenticationError"]

InsufficientCreditsError(message, creditsRequired, creditsAvailable) ==
  [PrintPalError(message, Some(402), None) EXCEPT
     !.name = "InsufficientCreditsError",
     !.creditsRequired = creditsRequired,
     !.creditsAvailable = creditsAvailable]

RateLimitError(message, retryAfter) ==
  [PrintPalError(message, Some(429), None) EXCEPT
     !.name = "RateLimitError", !.retryAfter = retryAfter]

GenerationError(message, generationUid) ==
  [PrintPalError(message, Some(500), None) EXCEPT
     !.name = "GenerationError", !.generationUid = generationUid]

NotFoundError(message) ==
  [PrintPalError(message, Some(404), None) EXCEPT !.name = "NotFoundError"]

ValidationError(message, errors) ==
  [PrintPalError(message, Some(400), None) EXCEPT
     !.name = "ValidationError", !.errors = errors]

TimeoutError(message) ==
  [PrintPalError(message, Some(408), None) EXCEPT !.name = "TimeoutError"]

NetworkError(message) ==
  [PrintPalError(message, None, None) EXCEPT !.name = "NetworkError"]

\* An exception that is no PrintPalError (fs.readFileSync, a TypeError).
PlainError(name, message) ==
  [PrintPalError(message, None, None) EXCEPT !.name = name]

(***************************************************************************)
(* How a call, or a step of one, ends: `raisedBy` names the function whose *)
(* `throw` statement raised the error.                                     *)
(***************************************************************************)
Running == [kind |-> "running", value |-> None, error |-> None, raisedBy |-> "none"]
Return(v) == [kind |-> "return", value |-> Some(v), error |-> None, raisedBy |-> "none"]
Throw(e, site) == [kind |-> "throw", value |-> None, error |-> Some(e), raisedBy |-> site]

Threw(r, errName) == r.kind = "throw" /\ r.error[1].name = errName

(***************************************************************************)
(* The transport.  What fetch() gives the dispatcher for one request:      *)
(*   kind "response": an HTTP response with a status code and a body;      *)
(*   kind "abort":    the dispatcher's own timer aborted the request;      *)
(*   kind "error":    fetch rejected for another reason.                   *)
(* A body is text: `json` says what JSON.parse makes of it ("object",      *)
(* "null", or "invalid" when it does not parse) and `data` is the parsed   *)
(* object.                                                                 *)
(***************************************************************************)
JsonObject(data) == [data |-> Some(data), json |-> "object"]
JsonNull == [data |-> None, json |-> "null"]
InvalidJson == [data |-> None, json |-> "invalid"]
NoBody == [data |-> None, json |-> "none"]

\* What the transport delivers: a response, the AbortError of an aborted
\* fetch, or another exception with its message.
HttpResponse(status, body) ==
  [message |-> "", kind |-> "response", status |-> status, body |-> body]
Aborted ==
  [message |-> "This operation was aborted", kind |-> "abort", status |-> 0,
   body |-> NoBody]
FetchRejected(message) ==
  [message |-> message, kind |-> "error", status |-> 0, body |-> NoBody]
FetchFailed == FetchRejected("fetch failed")

\* An error body's fields, each optional.
ErrorData(message, error, credits_required, credits_available, retry_after, errors) ==
  [message |-> message, errors |-> errors, error |-> error,
   credits_required |-> credits_required, credits_available |-> credits_available,
   retry_after |-> retry_after]

EmptyObject == ErrorData(None, None, None, None, None, None)

\* response.ok
ResponseOk(status) == status >= 200 /\ status <= 299

\* handleErrorResponse: the error it throws.
HandleErrorResponse(statusCode, data) ==
  LET message ==
        IF TruthyStr(data.message) THEN data.message[1]
        ELSE IF TruthyStr(data.error) THEN data.error[1]
        ELSE "Unknown error"
  IN CASE statusCode = 401 -> AuthenticationError(message)
       [] statusCode = 402 ->
            InsufficientCreditsError(message, data.credits_required,
                                     data.credits_available)
       [] statusCode = 404 -> NotFoundError(message)
       [] statusCode = 429 -> RateLimitError(message, data.retry_after)
       [] statusCode = 400 -> ValidationError(message, data.errors)
       [] OTHER -> PrintPalError(message, Some(statusCode), Some(data))

RequestReturnsUnparsed(wire) ==
  IF wire.kind = "abort" THEN Throw(TimeoutError("Request timed out"), "request")
  ELSE IF wire.kind = "error" THEN
    Throw(NetworkError("Network error: " \o wire.message), "request")
  ELSE IF ~ResponseOk(wire.status) THEN
    IF wire.body.json = "null" THEN
      Throw(NetworkError("Network error: Cannot read properties of null"), "request")
    ELSE
      Throw(HandleErrorResponse(wire.status,
                                IF wire.body.json = "invalid" THEN EmptyObject
                                ELSE wire.body.data[1]),
            "handleErrorResponse")
  ELSE IF wire.body.json = "invalid" THEN Return(EmptyObject)
  ELSE IF wire.body.json = "null" THEN Return(None)
  ELSE Return(wire.body.data[1])

RequestWrapsMapped(wire) ==
  IF wire.kind = "abort" THEN Throw(TimeoutError("Request timed out"), "request")
  ELSE IF wire.kind = "error" THEN
    Throw(NetworkError("Network error: " \o wire.message), "request")
  ELSE IF ~ResponseOk(wire.status) THEN
    IF wire.body.json = "null" THEN
      Throw(NetworkError("Network error: Cannot read properties of null"), "request")
    ELSE
      Throw(NetworkError("Network error: "
                           \o HandleErrorResponse(wire.status,
                                                  IF wire.body.json = "invalid"
                                                  THEN EmptyObject
                                                  ELSE wire.body.data[1]).message),
            "request")
  ELSE IF wire.body.json = "invalid" THEN
    Throw(NetworkError("Network error: Unexpected token"), "request")
  ELSE IF wire.body.json = "null" THEN Return(None)
  ELSE Return(wire.body.data[1])

\* request: what the call of this.request(...) ends with, given what the
\* transport delivered.  `response.json().catch(() => ({}))` turns a body that
\* does not parse into {}; a body that parses to null stays null, and reading
\* `data.message` of it throws a TypeError inside the try block.
Request(wire) ==
  IF wire.kind = "abort" THEN Throw(TimeoutError("Request timed out"), "request")
  ELSE IF wire.kind = "error" THEN
    Throw(NetworkError("Network error: " \o wire.message), "request")
  ELSE IF ~ResponseOk(wire.status) THEN
    IF wire.body.json = "null" THEN
      Throw(NetworkError("Network error: Cannot read properties of null"), "request")
    ELSE
      Throw(HandleErrorResponse(wire.status,
                                IF wire.body.json = "invalid" THEN EmptyObject
                                ELSE wire.body.data[1]),
            "handleErrorResponse")
  ELSE IF wire.body.json = "invalid" THEN
    Throw(NetworkError("Network error: Unexpected token"), "request")
  ELSE IF wire.body.json = "null" THEN Return(None)
  ELSE Return(wire.body.data[1])

(***************************************************************************)
(* Validation                                                              *)
(***************************************************************************)
IsSuperQualityWithoutPlus(quality) == quality \in {"super", "super_texture"}

\* isSuperQuality
IsSuperQuality(quality) ==
  quality \in {"super", "super_texture", "superplus", "superplus_texture"}

ValidateQualityFormatNoFbxGate(quality, format) ==
  IF quality \in {"super_texture", "superplus_texture"} /\ format \notin {"glb", "obj"}
  THEN Some(ValidationError("Texture generation (" \o quality
                              \o ") only supports GLB and OBJ formats", None))
  ELSE None

\* validateQualityFormat: None when it returns, Some(error) when it throws.
ValidateQualityFormat(quality, format) ==
  IF quality \in {"super_texture", "superplus_texture"} /\ format \notin {"glb", "obj"}
  THEN Some(ValidationError("Texture generation (" \o quality
                              \o ") only supports GLB and OBJ formats", None))
  ELSE IF format = "fbx" /\ ~IsSuperQuality(quality)
  THEN Some(ValidationError(
              "FBX format is only available for super/superplus quality levels", None))
  ELSE None

(***************************************************************************)
(* Text the client takes apart (a path, a handle) is a sequence of         *)
(* one-character strings.                                                  *)
(***************************************************************************)
UpperCase == <<"A", "B", "C", "D", "E", "F", "G", "H", "I", "J", "K", "L", "M",
               "N", "O", "P", "Q", "R", "S", "T", "U", "V", "W", "X", "Y", "Z">>
LowerCase == <<"a", "b", "c", "d", "e", "f", "g", "h", "i", "j", "k", "l", "m",
               "n", "o", "p", "q", "r", "s", "t", "u", "v", "w", "x", "y", "z">>

\* String.prototype.toLowerCase
ToLowerCase(s) ==
  [i \in 1..Len(s) |->
     IF \E k \in 1..26 : UpperCase[k] = s[i]
     THEN LowerCase[CHOOSE k \in 1..26 : UpperCase[k] = s[i]]
     ELSE s[i]]

\* String.prototype.slice(start), start counted from 0
Slice(s, start) == SubSeq(s, start + 1, Len(s))

\* String.prototype.slice(0, end)
Prefix(s, end) == SubSeq(s, 1, IF Len(s) < end THEN Len(s) ELSE end)

\* The index of the last c in s, 0 when there is none.
LastIndexOf(s, c) ==
  IF \E i \in 1..Len(s) : s[i] = c
  THEN CHOOSE i \in 1..Len(s) : s[i] = c /\ \A j \in (i + 1)..Len(s) : s[j] # c
  ELSE 0

\* The text of a character sequence.
RECURSIVE Text(_)
Text(s) == IF s = <<>> THEN "" ELSE s[1] \o Text(Tail(s))

\* The characters of a format name.
Chars(format) ==
  CASE format = "stl" -> <<"s", "t", "l">>
    [] format = "glb" -> <<"g", "l", "b">>
    [] format = "obj" -> <<"o", "b", "j">>
    [] format = "ply" -> <<"p", "l", "y">>
    [] format = "fbx" -> <<"f", "b", "x">>

\* path.extname (POSIX): from the last "." of the path's last portion to its
\* end; "" when that portion has no "." other than its first character.
Extname(path) ==
  LET base == SubSeq(path, LastIndexOf(path, "/") + 1, Len(path))
      dot == LastIndexOf(base, ".")
  IN IF dot <= 1 \/ base = <<".", ".">> THEN <<>>
     ELSE SubSeq(base, dot, Len(base))

(***************************************************************************)
(* Bounds of the model and the inputs the caller and the service draw.     *)
(***************************************************************************)
\* Polls one call of waitForCompletion may make in its loop.
MaxPolls == 3
\* A round trip takes no time or RequestTime ms.
RequestTime == 1000
\* A poll interval long enough for every timeout of the table to elapse
\* within MaxPolls polls.
SlowPoll == 300000
\* Steps of RequestTime ms the clock of the dispatcher takes from 0, and
\* from the default timeout.
ClockSteps == 1

Durations == {0, RequestTime}
PollIntervals == {None, Some(SlowPoll)}
SlowPollIntervals == {Some(SlowPoll)}
Timeouts == {None, Some(0), Some(300000)}

Handles == {<<"a", "b", "c", "d", "e", "f", "1", "2", "3", "4">>, <<"u", "2">>}
WaitHandles == {<<"a", "b", "c", "d", "e", "f", "1", "2", "3", "4">>}
RawStatuses == {"pending", "processing", "completed", "failed", "queued"}
\* The quality a status response reports: absent, empty, a Quality, or a
\* name the table does not hold.
StatusQualities == {None, Some(""), Some("turbo")} \cup {Some(q) : q \in Quality}

OptQuality == {None} \cup {Some(q) : q \in Quality}
OptFormat == {None} \cup {Some(f) : f \in Format}
InferenceOptions ==
  {[numInferenceSteps |-> None, guidanceScale |-> None, octreeResolution |-> None],
   [numInferenceSteps |-> Some(30), guidanceScale |-> Some(7),
    octreeResolution |-> Some(512)]}
Prompts == {None, Some(""), Some("A cute robot character")}

\* Error bodies the service sends.
ErrorBodies ==
  {InvalidJson, JsonNull, JsonObject(EmptyObject),
   JsonObject(ErrorData(Some("no credits"), None, Some(20), Some(3), None, None)),
   JsonObject(ErrorData(None, Some("slow down"), None, None, Some(30), None)),
   JsonObject(ErrorData(Some(""), Some("bad request"), Some(0), None, Some(0),
                        Some("format: unsupported")))}
ErrorCodes == {400, 401, 402, 403, 404, 429, 500, 503}

\* The ways a POST to /api/generate fails in the model ...
Failures ==
  {Aborted, FetchFailed, HttpResponse(200, InvalidJson),
   HttpResponse(400, JsonObject(ErrorData(Some("bad request"), None, None, None,
                                          None, Some("format: unsupported")))),
   HttpResponse(500, InvalidJson)}

\* ... and a status request.
StatusFailures ==
  {Aborted, HttpResponse(200, InvalidJson),
   HttpResponse(404, JsonObject(ErrorData(Some("Generation not found"), None, None,
                                          None, None, None)))}

GenerateOk(uid) ==
  HttpResponse(200, JsonObject([status |-> "pending", generation_uid |-> uid]))
StatusOk(uid, raw, quality) ==
  HttpResponse(200, JsonObject([status |-> raw, quality |-> quality,
                                generation_uid |-> uid]))

\* Destination paths: none, without extension, with each format's extension
\* (one in upper case), with another extension.
OutputPaths ==
  {None,
   Some(<<"m", "o", "d", "e", "l">>),
   Some(<<"m", ".", "s", "t", "l">>),
   Some(<<"o", "u", "t", "/", "m", ".", "G", "L", "B">>),
   Some(<<"m", ".", "o", "b", "j">>),
   Some(<<"m", ".", "p", "l", "y">>),
   Some(<<"m", ".", "f", "b", "x">>),
   Some(<<"a", ".", "b", "/", "m", ".", "t", "x", "t">>)}

\* Destinations of download alone: also the empty path, a trailing dot, a
\* leading dot, a dot in the directory only, an upper-case extension that
\* differs from the format.
DownloadPaths ==
  OutputPaths \cup
    {Some(<<>>),
     Some(<<"m", "o", "d", "e", "l", ".">>),
     Some(<<".", "c", "f", "g">>),
     Some(<<"a", ".", "b", "/", "m", "o", "d", "e", "l">>),
     Some(<<"m", ".", "O", "B", "J">>),
     Some(<<"m", "o", "d", "e", "l", ".", "o", "b", "j">>)}

DescriptorOk(uid, format) ==
  HttpResponse(200, JsonObject([format |-> format, generation_uid |-> uid,
                                download_url |-> "https://cdn.printpal.io/signed",
                                expires_in |-> 3600]))

\* What fetch(downloadInfo.downloadUrl) gives download.
FileFetched == [kind |-> "response", status |-> 200, ok |-> TRUE, statusText |-> "OK"]
FileForbidden ==
  [kind |-> "response", status |-> 403, ok |-> FALSE, statusText |-> "Forbidden"]
FileFetchFailed == [kind |-> "error", status |-> 0, ok |-> FALSE, statusText |-> ""]

(***************************************************************************)
(* State                                                                   *)
(***************************************************************************)
VARIABLES
  client,        \* the PrintPal instance: apiKey, baseUrl, timeout
  op,            \* the public method the caller invoked, or "idle"
  pc,            \* where that call stands
  args,          \* its arguments
  payload,       \* the form data it posted to /api/generate
  net,           \* requests it issued, per endpoint
  service,       \* what the service holds about the generation
  wopts,         \* waitForCompletion's arguments
  timeout,       \* waitForCompletion's resolved timeout (ms)
  startTime,     \* waitForCompletion's startTime
  elapsed,       \* waitForCompletion's last `elapsed`
  now,           \* Date.now()
  initialStatus, \* waitForCompletion's pre-loop status
  polls,         \* the statuses the loop's polls got, in order
  progress,      \* the statuses passed to onProgress, in order
  sleeps,        \* completed sleeps of the loop
  finalPath,     \* download's finalPath
  files,         \* the paths written to local storage, in order
  wire,          \* what the transport delivered last
  result,        \* how the call ended
  dispatches,    \* the invocations of this.request followed step by step
  waits          \* the calls of waitForCompletion that run at once

vars ==
  <<client, op, pc, args, payload, net, service, wopts, timeout, startTime,
    elapsed, now, initialStatus, polls, progress, sleeps, finalPath, files, wire,
    result, dispatches, waits>>

DEFAULT_BASE_URL == "https://printpal.io"
DEFAULT_TIMEOUT == 60000

\* constructor (it also drops one trailing "/" of the base URL; the default has
\* none)
Construct(config) ==
  [timeout |-> IF TruthyNum(config.timeout) THEN config.timeout[1] ELSE DEFAULT_TIMEOUT,
   apiKey |-> config.apiKey,
   baseUrl |-> IF TruthyStr(config.baseUrl) THEN config.baseUrl[1] ELSE DEFAULT_BASE_URL]

\* The invocations of this.request that are followed step by step.
Dispatchers == {"first", "second"}

\* An invocation that has not begun.
IdleDispatch ==
  [response |-> None, phase |-> "idle", timer |-> "none", armedAt |-> None,
   aborted |-> FALSE, abortedBy |-> None, outcome |-> Running, endedAt |-> None]

\* The calls of waitForCompletion that run at once, and the handle of each.
Waiters == {"first", "second"}
HandleOf(c) ==
  IF c = "first" THEN <<"a", "b", "c", "d", "e", "f", "1", "2", "3", "4">> ELSE <<"u", "2">>

\* A call that has not begun: its arguments, its locals (timeout, startTime),
\* when its sleep ends, what its polls got and after how many ms, what
\* onProgress was passed, the last answer and the outcome.
IdleWait ==
  [generationUid |-> None, wire |-> None, pc |-> "idle", timeout |-> None,
   startTime |-> None, elapsed |-> <<>>, polls |-> <<>>, progress |-> <<>>,
   result |-> Running, options |-> None, wakeAt |-> None]

NoRequests == [status |-> 0, api |-> 0, generate |-> 0, download |-> 0, fetch |-> 0]

Init ==
  /\ client = Construct([timeout |-> None, apiKey |-> "pp_live_key", baseUrl |-> None])
  /\ op = "idle"
  /\ pc = "idle"
  /\ args = None
  /\ payload = None
  /\ net = NoRequests
  /\ service = None
  /\ wopts = None
  /\ timeout = None
  /\ startTime = None
  /\ elapsed = None
  /\ now = 0
  /\ initialStatus = None
  /\ polls = <<>>
  /\ progress = <<>>
  /\ sleeps = 0
  /\ finalPath = None
  /\ files = <<>>
  /\ wire = None
  /\ result = Running
  /\ dispatches = [i \in Dispatchers |-> IdleDispatch]
  /\ waits = [c \in Waiters |-> IdleWait]

waitVars == <<wopts, timeout, startTime, elapsed, initialStatus, polls, progress, sleeps>>
fileVars == <<finalPath, files>>

(***************************************************************************)
(* Credits, pricing, usage: one dispatch each.                             *)
(***************************************************************************)
\* getCredits, getPricing, getUsage up to the await of this.request.
SimpleCall(name) ==
  /\ pc = "idle"
  /\ op' = name
  /\ pc' = "api"
  /\ net' = [net EXCEPT !.api = @ + 1]
  /\ UNCHANGED <<client, dispatches, waits, args, payload, service, waitVars, fileVars, now, wire, result>>

GetCredits == SimpleCall("getCredits")
GetPricing == SimpleCall("getPricing")
GetUsage == SimpleCall("getUsage")

SimpleReplyRetries(w) ==
  /\ pc = "api"
  /\ wire' = Some(w)
  /\ IF Request(w).kind = "throw" /\ net.api < 2 THEN
       /\ net' = [net EXCEPT !.api = @ + 1]
       /\ UNCHANGED <<pc, result>>
     ELSE
       /\ result' = Request(w)
       /\ pc' = "done"
       /\ UNCHANGED net
  /\ UNCHANGED <<client, dispatches, waits, op, args, payload, service, waitVars, fileVars, now>>

\* The answer arrives: the call ends as this.request does.
SimpleReply(w) ==
  /\ pc = "api"
  /\ wire' = Some(w)
  /\ result' = Request(w)
  /\ pc' = "done"
  /\ UNCHANGED <<client, dispatches, waits, op, args, payload, net, service, waitVars, fileVars, now>>

(***************************************************************************)
(* Submission                                                              *)
(***************************************************************************)
\* The form data of an image submission (a number is kept as the number
\* whose decimal text String() appends).
ImageFormDataAlwaysInference(quality, format, o) ==
  [quality |-> quality, format |-> format, image |-> TRUE, prompt |-> None,
   num_inference_steps |-> Some(OrDefault(o.numInferenceSteps, 20)),
   guidance_scale |-> Some(OrDefault(o.guidanceScale, 5)),
   octree_resolution |-> Some(OrDefault(o.octreeResolution, 256))]

ImageFormData(quality, format, o) ==
  [quality |-> quality, format |-> format, image |-> TRUE, prompt |-> None,
   num_inference_steps |->
     IF ~IsSuperQuality(quality) THEN Some(OrDefault(o.numInferenceSteps, 20)) ELSE None,
   guidance_scale |->
     IF ~IsSuperQuality(quality) THEN Some(OrDefault(o.guidanceScale, 5)) ELSE None,
   octree_resolution |->
     IF ~IsSuperQuality(quality) THEN Some(OrDefault(o.octreeResolution, 256)) ELSE None]

\* The form data of a prompt submission.
PromptFormData(prompt, quality, format, o) ==
  [quality |-> quality, format |-> format, image |-> FALSE, prompt |-> Some(prompt),
   num_inference_steps |-> Some(OrDefault(o.numInferenceSteps, 20)),
   guidance_scale |-> Some(OrDefault(o.guidanceScale, 5)),
   octree_resolution |-> Some(OrDefault(o.octreeResolution, 256))]

\* The call throws before it awaits anything.
ThrowNow(e, site) ==
  /\ result' = Throw(e, site)
  /\ pc' = "done"
  /\ UNCHANGED <<payload, net>>

\* The call posts `form` to /api/generate and awaits the answer.
PostGenerate(form) ==
  /\ payload' = Some(form)
  /\ net' = [net EXCEPT !.generate = @ + 1]
  /\ pc' = "generate"
  /\ result' = Running

SubmitImageDispatchFirst(o, readsFile, fileOk) ==
  LET quality == OrDefault(o.quality, "default")
      format == OrDefault(o.format, "stl")
      invalid == ValidateQualityFormat(quality, format)
  IN IF readsFile /\ ~fileOk THEN
       ThrowNow(PlainError("Error", "ENOENT: no such file or directory"), "readFileSync")
     ELSE IF invalid # None THEN
       /\ payload' = Some(ImageFormData(quality, format, o))
       /\ net' = [net EXCEPT !.generate = @ + 1]
       /\ result' = Throw(invalid[1], "validateQualityFormat")
       /\ pc' = "done"
     ELSE PostGenerate(ImageFormData(quality, format, o))

\* The body of generateFromImage (readsFile) and of generateFromBuffer, up
\* to the await of this.request.
SubmitImage(o, readsFile, fileOk) ==
  LET quality == OrDefault(o.quality, "default")
      format == OrDefault(o.format, "stl")
      invalid == ValidateQualityFormat(quality, format)
  IN IF invalid # None THEN ThrowNow(invalid[1], "validateQualityFormat")
     ELSE IF readsFile /\ ~fileOk THEN
       ThrowNow(PlainError("Error", "ENOENT: no such file or directory"), "readFileSync")
     ELSE PostGenerate(ImageFormData(quality, format, o))

GenerateFromImage(o, fileOk) ==
  /\ pc = "idle"
  /\ op' = "generateFromImage"
  /\ args' = Some(o)
  /\ SubmitImage(o, TRUE, fileOk)
  /\ UNCHANGED <<client, dispatches, waits, service, waitVars, fileVars, now, wire>>

GenerateFromBuffer(o) ==
  /\ pc = "idle"
  /\ op' = "generateFromBuffer"
  /\ args' = Some(o)
  /\ SubmitImage(o, FALSE, TRUE)
  /\ UNCHANGED <<client, dispatches, waits, service, waitVars, fileVars, now, wire>>

GenerateFromPrompt(o) ==
  LET quality == OrDefault(o.quality, "default")
      format == OrDefault(o.format, "stl")
      invalid == ValidateQualityFormat(quality, format)
  IN /\ pc = "idle"
     /\ op' = "generateFromPrompt"
     /\ args' = Some(o)
     /\ IF ~TruthyStr(o.prompt) THEN
          ThrowNow(ValidationError("Prompt is required", None), "generateFromPrompt")
        ELSE IF IsSuperQuality(quality) THEN
          ThrowNow(ValidationError(
                     "Text-to-3D is not available for super/superplus quality levels. Please use an image instead.",
                     None), "generateFromPrompt")
        ELSE IF invalid # None THEN ThrowNow(invalid[1], "validateQualityFormat")
        ELSE PostGenerate(PromptFormData(o.prompt[1], quality, format, o))
     /\ UNCHANGED <<client, dispatches, waits, service, waitVars, fileVars, now, wire>>

InferFormatCaseSensitive(format, outputPath) ==
  LET ext == IF outputPath = None THEN ""
             ELSE Text(Slice(Extname(outputPath[1]), 1))
  IN IF format # None THEN format[1]
     ELSE IF outputPath # None /\ outputPath[1] # <<>>
             /\ ext \in {"stl", "glb", "obj", "ply", "fbx"} THEN ext
     ELSE "stl"

\* generateAndDownload's finalFormat.
InferFormat(format, outputPath) ==
  LET ext == IF outputPath = None THEN "" 
             ELSE Text(Slice(ToLowerCase(Extname(outputPath[1])), 1))
  IN IF format # None THEN format[1]
     ELSE IF outputPath # None /\ outputPath[1] # <<>>
             /\ ext \in {"stl", "glb", "obj", "ply", "fbx"} THEN ext
     ELSE "stl"

GenerateAndDownloadValidatesOption(outputPath, o, fileOk) ==
  LET quality == OrDefault(o.quality, "default")
      invalid == ValidateQualityFormat(quality, OrDefault(o.format, "glb"))
      form == ImageFormData(quality, InferFormat(o.format, outputPath), o)
  IN /\ pc = "idle"
     /\ op' = "generateAndDownload"
     /\ args' = Some([options |-> o, outputPath |-> outputPath])
     /\ IF invalid # None THEN ThrowNow(invalid[1], "validateQualityFormat")
        ELSE IF ~fileOk THEN
          ThrowNow(PlainError("Error", "ENOENT: no such file or directory"),
                   "readFileSync")
        ELSE PostGenerate(form)
     /\ UNCHANGED <<client, dispatches, waits, service, waitVars, fileVars, now, wire>>

\* generateAndDownload up to the await of generateFromImage's request.
GenerateAndDownload(outputPath, o, fileOk) ==
  /\ pc = "idle"
  /\ op' = "generateAndDownload"
  /\ args' = Some([options |-> o, outputPath |-> outputPath])
  /\ SubmitImage([quality |-> Some(OrDefault(o.quality, "default")),
                  format |-> Some(InferFormat(o.format, outputPath)),
                  numInferenceSteps |-> o.numInferenceSteps,
                  guidanceScale |-> o.guidanceScale,
                  octreeResolution |-> o.octreeResolution], TRUE, fileOk)
  /\ UNCHANGED <<client, dispatches, waits, service, waitVars, fileVars, now, wire>>

\* The GenerationResult the submit operations build from the response; the
\* quality and format are those posted.
GenerationResult(response, form) ==
  [generationUid |-> response.generation_uid, status |-> response.status,
   quality |-> form.quality, format |-> form.format]

(***************************************************************************)
(* Status and the polling loop                                             *)
(***************************************************************************)
GetStatusUnknownFatal(response) ==
  [generationUid |-> response.generation_uid,
   status |-> response.status,
   quality |-> response.quality,
   isCompleted |-> response.status = "completed",
   isFailed |-> response.status \notin {"completed", "processing", "pending"},
   isProcessing |-> response.status = "processing" \/ response.status = "pending"]

\* getStatus: the GenerationStatus built from the response (format, createdAt,
\* completedAt and downloadUrl are copied the same way and read by nothing).
GetStatus(response) ==
  [generationUid |-> response.generation_uid,
   status |-> response.status,
   quality |-> response.quality,
   isCompleted |-> response.status = "completed",
   isFailed |-> response.status = "failed",
   isProcessing |-> response.status = "processing" \/ response.status = "pending"]

TimeoutFromOptionsZeroUnset(o) ==
  IF TruthyNum(o.timeout) THEN o.timeout
  ELSE IF TruthyStr(o.quality) THEN Some(GENERATION_TIMEOUTS[o.quality[1]] * 1000)
  ELSE None

\* waitForCompletion's timeout when no status lookup is needed; None when the
\* pre-loop getStatus has to be awaited first.
TimeoutFromOptions(o) ==
  IF o.timeout # None THEN o.timeout
  ELSE IF TruthyStr(o.quality) THEN Some(GENERATION_TIMEOUTS[o.quality[1]] * 1000)
  ELSE None

\* ... and from the pre-loop status.
TimeoutFromStatus(status) ==
  IF TruthyStr(status.quality) THEN
    (IF status.quality[1] \in DOMAIN GENERATION_TIMEOUTS
        /\ GENERATION_TIMEOUTS[status.quality[1]] # 0
     THEN GENERATION_TIMEOUTS[status.quality[1]] ELSE 600) * 1000
  ELSE 600000

\* waitForCompletion(generationUid, o) up to its first await.
EnterWait(generationUid, o) ==
  LET t == TimeoutFromOptions(o)
  IN /\ wopts' = Some([generationUid |-> generationUid, quality |-> o.quality,
                       timeout |-> o.timeout, pollInterval |-> o.pollInterval,
                       onProgress |-> o.onProgress])
     /\ timeout' = t
     /\ startTime' = IF t = None THEN None ELSE Some(now)
     /\ pc' = IF t = None THEN "initial" ELSE "poll"
     /\ net' = [net EXCEPT !.status = @ + 1]
     /\ UNCHANGED <<elapsed, initialStatus, polls, progress, sleeps>>

WaitForCompletion(generationUid, o, reported) ==
  /\ pc = "idle"
  /\ op' = "waitForCompletion"
  /\ args' = Some([generationUid |-> generationUid, options |-> o])
  /\ service' = Some([quality |-> reported])
  /\ EnterWait(generationUid, o)
  /\ UNCHANGED <<client, dispatches, waits, payload, fileVars, now, wire, result>>

WaitAndDownload(generationUid, outputPath, o, reported) ==
  /\ pc = "idle"
  /\ op' = "waitAndDownload"
  /\ args' = Some([generationUid |-> generationUid, options |-> o,
                   outputPath |-> outputPath])
  /\ service' = Some([quality |-> reported])
  /\ EnterWait(generationUid, o)
  /\ UNCHANGED <<client, dispatches, waits, payload, fileVars, now, wire, result>>

\* The answer to generateFromImage's, generateFromBuffer's or
\* generateFromPrompt's POST arrives.
GenerateReply(w) ==
  LET r == Request(w)
  IN /\ pc = "generate"
     /\ op \in {"generateFromImage", "generateFromBuffer", "generateFromPrompt"}
     /\ wire' = Some(w)
     /\ result' = IF r.kind = "throw" THEN r
                  ELSE Return(GenerationResult(r.value[1], payload[1]))
     /\ pc' = "done"
     /\ UNCHANGED <<client, dispatches, waits, op, args, payload, net, service, waitVars, fileVars, now>>

\* The answer to generateAndDownload's POST arrives: on success the call goes
\* on to waitAndDownload and so to waitForCompletion.
GenerateAndDownloadReply(w) ==
  LET r == Request(w)
      o == args[1].options
      generated == GenerationResult(r.value[1], payload[1])
  IN /\ pc = "generate"
     /\ op = "generateAndDownload"
     /\ wire' = Some(w)
     /\ IF r.kind = "throw" THEN
          /\ result' = r
          /\ pc' = "done"
          /\ UNCHANGED <<net, service, waitVars>>
        ELSE
          /\ service' = Some([quality |-> Some(generated.quality)])
          /\ EnterWait(generated.generationUid,
                       [quality |-> Some(OrDefault(o.quality, "default")),
                        timeout |-> o.timeout,
                        pollInterval |-> Some(OrDefault(o.pollInterval, 5000)),
                        onProgress |-> o.onProgress])
          /\ UNCHANGED result
     /\ UNCHANGED <<client, dispatches, waits, op, args, payload, fileVars, now>>

InitialReplyFallsBack(w, d) ==
  LET r == Request(w)
      status == GetStatus(r.value[1])
  IN /\ pc = "initial"
     /\ wire' = Some(w)
     /\ now' = now + d
     /\ initialStatus' = IF r.kind = "throw" THEN initialStatus ELSE Some(status)
     /\ timeout' = IF r.kind = "throw" THEN Some(600000)
                   ELSE Some(TimeoutFromStatus(status))
     /\ startTime' = Some(now')
     /\ net' = [net EXCEPT !.status = @ + 1]
     /\ pc' = "poll"
     /\ UNCHANGED <<client, dispatches, waits, op, args, payload, service, wopts,
                    elapsed, polls, progress, sleeps, fileVars, result>>

\* The answer to the pre-loop getStatus arrives after d ms.
InitialReply(w, d) ==
  LET r == Request(w)
      status == GetStatus(r.value[1])
  IN /\ pc = "initial"
     /\ wire' = Some(w)
     /\ now' = now + d
     /\ IF r.kind = "throw" THEN
          /\ result' = r
          /\ pc' = "done"
          /\ UNCHANGED <<net, timeout, startTime, initialStatus>>
        ELSE
          /\ initialStatus' = Some(status)
          /\ timeout' = Some(TimeoutFromStatus(status))
          /\ startTime' = Some(now')
          /\ net' = [net EXCEPT !.status = @ + 1]
          /\ pc' = "poll"
          /\ UNCHANGED result
     /\ UNCHANGED <<client, dispatches, waits, op, args, payload, service, wopts, elapsed, polls,
                    progress, sleeps, fileVars>>

LoopBranchCompletedPollsOn(status, e, t) ==
  IF status.isFailed THEN "failed"
  ELSE IF e >= t THEN "timeout"
  ELSE "sleep"

LoopBranchFailedPollsOn(status, e, t) ==
  IF status.isCompleted THEN "return"
  ELSE IF e >= t THEN "timeout"
  ELSE "sleep"

LoopBranchNeverTimesOut(status, e, t) ==
  IF status.isCompleted THEN "return"
  ELSE IF status.isFailed THEN "failed"
  ELSE "sleep"

\* One iteration of the loop from the answer of getStatus to the next await,
\* return or throw: "return", "failed", "timeout" or "sleep".
LoopBranchTimeoutBeforeFailed(status, e, t) ==
  IF status.isCompleted THEN "return"
  ELSE IF e >= t THEN "timeout"
  ELSE IF status.isFailed THEN "failed"
  ELSE "sleep"

LoopBranchTimeoutFirst(status, e, t) ==
  IF e >= t THEN "timeout"
  ELSE IF status.isCompleted THEN "return"
  ELSE IF status.isFailed THEN "failed"
  ELSE "sleep"

LoopBranchTimeoutReturns(status, e, t) ==
  IF status.isCompleted THEN "return"
  ELSE IF status.isFailed THEN "failed"
  ELSE IF e >= t THEN "return"
  ELSE "sleep"

LoopBranch(status, e, t) ==
  IF status.isCompleted THEN "return"
  ELSE IF status.isFailed THEN "failed"
  ELSE IF e >= t THEN "timeout"
  ELSE "sleep"

\* The answer to a getStatus of the loop arrives after d ms.  When the loop
\* returns inside waitAndDownload, download starts: it requests the descriptor.
PollReply(w, d) ==
  LET r == Request(w)
      status == GetStatus(r.value[1])
      e == (now + d) - startTime[1]
      branch == LoopBranch(status, e, timeout[1])
  IN /\ pc = "poll"
     /\ wire' = Some(w)
     /\ now' = now + d
     /\ IF r.kind = "throw" THEN
          /\ result' = r
          /\ pc' = "done"
          /\ UNCHANGED <<polls, progress, elapsed, net>>
        ELSE
          /\ polls' = Append(polls, status)
          /\ progress' = IF wopts[1].onProgress THEN Append(progress, status) ELSE progress
          /\ elapsed' = IF branch \in {"timeout", "sleep"} THEN Some(e) ELSE elapsed
          /\ result' =
               CASE branch = "return" /\ op = "waitForCompletion" -> Return(status)
                 [] branch = "failed" ->
                      Throw(GenerationError("Generation failed",
                                            Some(wopts[1].generationUid)),
                            "waitForCompletion")
                 [] branch = "timeout" ->
                      \* the message names timeout / 1000 as well
                      Throw(TimeoutError("Generation did not complete within the timeout"),
                            "waitForCompletion")
                 [] OTHER -> Running
          /\ pc' = CASE branch = "sleep" -> "sleep"
                     [] branch = "return" /\ op # "waitForCompletion" -> "descriptor"
                     [] OTHER -> "done"
          /\ net' = IF branch = "return" /\ op # "waitForCompletion"
                    THEN [net EXCEPT !.download = @ + 1] ELSE net
     /\ UNCHANGED <<client, dispatches, waits, op, args, payload, service, wopts, timeout,
                    startTime, initialStatus, sleeps, fileVars>>

\* The sleep of the loop ends and the next getStatus is issued.
SleepDone ==
  /\ pc = "sleep"
  /\ Len(polls) < MaxPolls
  /\ now' = now + OrDefault(wopts[1].pollInterval, 5000)
  /\ sleeps' = sleeps + 1
  /\ net' = [net EXCEPT !.status = @ + 1]
  /\ pc' = "poll"
  /\ UNCHANGED <<client, dispatches, waits, op, args, payload, service, wopts, timeout, startTime,
                 elapsed, initialStatus, polls, progress, fileVars, wire, result>>

(***************************************************************************)
(* Download                                                                *)
(***************************************************************************)
\* getDownloadUrl: the DownloadResult built from the response.
GetDownloadUrl(response) ==
  [generationUid |-> response.generation_uid, format |-> response.format,
   downloadUrl |-> response.download_url, expiresIn |-> response.expires_in]

FinalPathKeepsExtension(generationUid, outputPath, format) ==
  IF outputPath = None \/ outputPath[1] = <<>> THEN
    <<"m", "o", "d", "e", "l", "_">> \o Prefix(generationUid, 8) \o <<".">> \o Chars(format)
  ELSE IF Extname(outputPath[1]) = <<>> THEN outputPath[1] \o <<".">> \o Chars(format)
  ELSE outputPath[1]

\* download's finalPath for a descriptor of `format`.
FinalPath(generationUid, outputPath, format) ==
  IF outputPath = None \/ outputPath[1] = <<>> THEN
    <<"m", "o", "d", "e", "l", "_">>
      \o Prefix(generationUid, 8)
      \o <<".">> \o Chars(format)
  ELSE
    LET path == outputPath[1]
        ext == Slice(ToLowerCase(Extname(path)), 1)
    IN IF ext # <<>> /\ ext # Chars(format)
       THEN SubSeq(path, 1, LastIndexOf(path, ".") - 1) \o <<".">> \o Chars(format)
       ELSE IF ext = <<>> THEN path \o <<".">> \o Chars(format)
       ELSE path

\* download(generationUid, outputPath) up to the await of getDownloadUrl.
Download(generationUid, outputPath) ==
  /\ pc = "idle"
  /\ op' = "download"
  /\ args' = Some([generationUid |-> generationUid, outputPath |-> outputPath])
  /\ net' = [net EXCEPT !.download = @ + 1]
  /\ pc' = "descriptor"
  /\ UNCHANGED <<client, dispatches, waits, payload, service, waitVars, fileVars, now, wire, result>>

\* The handle and the destination download was called with.
DownloadUid == IF op = "generateAndDownload" THEN wopts[1].generationUid
               ELSE args[1].generationUid

\* The answer to getDownloadUrl's request arrives; on success the file is
\* fetched from the signed URL.
DescriptorReply(w) ==
  LET r == Request(w)
      downloadInfo == GetDownloadUrl(r.value[1])
  IN /\ pc = "descriptor"
     /\ wire' = Some(w)
     /\ IF r.kind = "throw" THEN
          /\ result' = r
          /\ pc' = "done"
          /\ UNCHANGED <<finalPath, net>>
        ELSE
          /\ finalPath' = Some(FinalPath(DownloadUid, args[1].outputPath,
                                         downloadInfo.format))
          /\ net' = [net EXCEPT !.fetch = @ + 1]
          /\ pc' = "fetch"
          /\ UNCHANGED result
     /\ UNCHANGED <<client, dispatches, waits, op, args, payload, service, waitVars, files, now>>

FetchReplyWritesFirst(f, writeOk) ==
  /\ pc = "fetch"
  /\ pc' = "done"
  /\ IF f.kind = "error" THEN
       /\ result' = Throw(PlainError("TypeError", "fetch failed"), "fetch")
       /\ UNCHANGED files
     ELSE IF ~writeOk THEN
       /\ result' = Throw(PlainError("Error", "EACCES: permission denied"),
                          "writeFileSync")
       /\ UNCHANGED files
     ELSE
       /\ files' = Append(files, finalPath[1])
       /\ result' = IF f.ok THEN Return(finalPath[1])
                    ELSE Throw(PrintPalError("Failed to download model: " \o f.statusText,
                                             None, None), "download")
  /\ UNCHANGED <<client, dispatches, waits, op, args, payload, net, service, waitVars,
                 finalPath, now, wire>>

\* The answer of the signed URL arrives; the file is written when the
\* response is ok (writeOk: fs.writeFileSync succeeds).
FetchReply(f, writeOk) ==
  /\ pc = "fetch"
  /\ pc' = "done"
  /\ IF f.kind = "error" THEN
       /\ result' = Throw(PlainError("TypeError", "fetch failed"), "fetch")
       /\ UNCHANGED files
     ELSE IF ~f.ok THEN
       /\ result' = Throw(PrintPalError("Failed to download model: " \o f.statusText,
                                        None, None), "download")
       /\ UNCHANGED files
     ELSE IF ~writeOk THEN
       /\ result' = Throw(PlainError("Error", "EACCES: permission denied"),
                          "writeFileSync")
       /\ UNCHANGED files
     ELSE
       /\ files' = Append(files, finalPath[1])
       /\ result' = Return(finalPath[1])
  /\ UNCHANGED <<client, dispatches, waits, op, args, payload, net, service, waitVars, finalPath, now,
                 wire>>

\* The caller has its answer; the client is ready for the next call.
Finish ==
  /\ pc = "done"
  /\ op' = "idle"
  /\ pc' = "idle"
  /\ args' = None
  /\ payload' = None
  /\ net' = NoRequests
  /\ service' = None
  /\ wopts' = None
  /\ timeout' = None
  /\ startTime' = None
  /\ elapsed' = None
  /\ now' = 0
  /\ initialStatus' = None
  /\ polls' = <<>>
  /\ progress' = <<>>
  /\ sleeps' = 0
  /\ finalPath' = None
  /\ files' = <<>>
  /\ wire' = None
  /\ result' = Running
  /\ UNCHANGED <<client, dispatches, waits>>

(***************************************************************************)
(* this.request, step by step: the timer, the fetch, the body              *)
(***************************************************************************)
\* What the steps of the dispatcher leave alone.
callVars ==
  <<client, op, pc, args, payload, net, service, waitVars, fileVars, wire, result>>

ClearTimeoutKeepsArmed(timer) == timer

\* clearTimeout(timeoutId): a pending timer is cancelled; one that has fired,
\* or was cleared already, stays as it is.
ClearTimeout(timer) == IF timer = "armed" THEN "cleared" ELSE timer

\* request up to its await of fetch: the controller is made, the timer armed
\* for this.timeout ms, the request sent.
DispatchRequest(i) ==
  /\ dispatches[i].phase = "idle"
  /\ dispatches' = [dispatches EXCEPT
                      ![i] = [IdleDispatch EXCEPT !.phase = "fetch", !.timer = "armed",
                                                  !.armedAt = Some(now)]]
  /\ UNCHANGED <<callVars, waits, now>>

\* d ms pass while a dispatch is under way: RequestTime ms, or the default
\* timeout.  A pending timer fires when it is due: time does not pass beyond
\* its deadline.
Elapse(d) ==
  /\ \E i \in Dispatchers : dispatches[i].phase \in {"fetch", "body"}
  /\ now + d <= DEFAULT_TIMEOUT + ClockSteps * RequestTime
  /\ d = RequestTime => (now % DEFAULT_TIMEOUT) < ClockSteps * RequestTime
  /\ \A i \in Dispatchers :
       dispatches[i].timer = "armed" =>
         now + d <= dispatches[i].armedAt[1] + client.timeout
  /\ now' = now + d
  /\ UNCHANGED <<callVars, waits, dispatches>>

\* The timer's callback: controller.abort(), on the controller of the
\* invocation that armed the timer.
TimerFires(i) ==
  /\ dispatches[i].timer = "armed"
  /\ now >= dispatches[i].armedAt[1] + client.timeout
  /\ dispatches' = [dispatches EXCEPT ![i].timer = "fired", ![i].aborted = TRUE,
                                      ![i].abortedBy = Some(i)]
  /\ UNCHANGED <<callVars, waits, now>>

\* The fetch of an aborted invocation rejects with AbortError: the catch
\* block clears the timer and throws TimeoutError.
FetchAborted(i) ==
  /\ dispatches[i].phase = "fetch"
  /\ dispatches[i].aborted
  /\ dispatches' = [dispatches EXCEPT ![i].phase = "ended",
                                      ![i].timer = ClearTimeout(@),
                                      ![i].outcome = Request(Aborted),
                                      ![i].endedAt = Some(now)]
  /\ UNCHANGED <<callVars, waits, now>>

\* The fetch settles: it rejects (catch block), or it resolves with the
\* response's status and headers, the timer is cleared and the body awaited.
FetchSettles(i, w) ==
  /\ dispatches[i].phase = "fetch"
  /\ ~dispatches[i].aborted
  /\ dispatches' =
       IF w.kind = "error" THEN
         [dispatches EXCEPT ![i].phase = "ended", ![i].timer = ClearTimeout(@),
                            ![i].outcome = Request(w), ![i].endedAt = Some(now)]
       ELSE
         [dispatches EXCEPT ![i].phase = "body", ![i].timer = ClearTimeout(@),
                            ![i].response = Some(w)]
  /\ UNCHANGED <<callVars, waits, now>>

\* response.json() settles, of the error branch or of the return statement:
\* the invocation ends as request does for this response (and the catch
\* block clears the timer once more when it throws).
BodyRead(i) ==
  LET r == Request(dispatches[i].response[1])
  IN /\ dispatches[i].phase = "body"
     /\ dispatches' = [dispatches EXCEPT
                         ![i].phase = "ended",
                         ![i].timer = IF r.kind = "throw" THEN ClearTimeout(@) ELSE @,
                         ![i].outcome = r,
                         ![i].endedAt = Some(now)]
     /\ UNCHANGED <<callVars, waits, now>>

\* The caller has the invocation's answer; the clock starts anew once no
\* invocation is left.
Collect(i) ==
  /\ dispatches[i].phase = "ended"
  /\ dispatches' = [dispatches EXCEPT ![i] = IdleDispatch]
  /\ now' = IF \A j \in Dispatchers \ {i} : dispatches[j].phase = "idle" THEN 0 ELSE now
  /\ UNCHANGED <<callVars, waits>>

(***************************************************************************)
(* waitForCompletion, several calls at once                                *)
(***************************************************************************)
TimeoutOfOtherCall(ws, c) ==
  IF \E other \in Waiters \ {c} : ws[other].pc # "idle"
  THEN ws[CHOOSE other \in Waiters \ {c} : ws[other].pc # "idle"].timeout[1]
  ELSE ws[c].timeout[1]

\* The `timeout` the loop of call c compares with: the local of its own
\* invocation.
TimeoutOfCall(ws, c) == ws[c].timeout[1]

\* Call c begins with a timeout or a quality given, while no other call has
\* ended or had more than ClockSteps answers: the timeout is resolved,
\* startTime taken and the first getStatus issued.
ConcurrentWait(c, o) ==
  /\ waits[c].pc = "idle"
  /\ \A other \in Waiters :
       waits[other].pc # "done" /\ Len(waits[other].polls) <= ClockSteps
  /\ TimeoutFromOptions(o) # None
  /\ waits' = [waits EXCEPT
                 ![c] = [IdleWait EXCEPT !.generationUid = Some(HandleOf(c)),
                                         !.pc = "poll",
                                         !.options = Some(o),
                                         !.timeout = TimeoutFromOptions(o),
                                         !.startTime = Some(now)]]
  /\ UNCHANGED <<callVars, dispatches, now>>

\* The answer to the getStatus of call c's loop arrives (at once).
ConcurrentReply(c, w) ==
  LET call == waits[c]
      r == Request(w)
      status == GetStatus(r.value[1])
      e == now - call.startTime[1]
      branch == LoopBranch(status, e, TimeoutOfCall(waits, c))
  IN /\ call.pc = "poll"
     /\ waits' =
          IF r.kind = "throw" THEN
            [waits EXCEPT ![c].pc = "done", ![c].wire = Some(w), ![c].result = r]
          ELSE
            [waits EXCEPT
               ![c].pc = IF branch = "sleep" THEN "sleep" ELSE "done",
               ![c].wakeAt =
                 IF branch = "sleep"
                 THEN Some(now + OrDefault(call.options[1].pollInterval, 5000))
                 ELSE None,
               ![c].polls = Append(@, status),
               ![c].elapsed = Append(@, e),
               ![c].progress = IF call.options[1].onProgress THEN Append(@, status) ELSE @,
               ![c].wire = Some(w),
               ![c].result =
                 CASE branch = "return" -> Return(status)
                   [] branch = "failed" ->
                        Throw(GenerationError("Generation failed",
                                              Some(call.generationUid[1])),
                              "waitForCompletion")
                   [] branch = "timeout" ->
                        Throw(TimeoutError("Generation did not complete within the timeout"),
                              "waitForCompletion")
                   [] OTHER -> Running]
     /\ UNCHANGED <<callVars, dispatches, now>>

\* The sleep of call c has ended: its next getStatus is issued.
ConcurrentWake(c) ==
  /\ waits[c].pc = "sleep"
  /\ waits[c].wakeAt[1] <= now
  /\ Len(waits[c].polls) < MaxPolls
  /\ waits' = [waits EXCEPT ![c].pc = "poll", ![c].wakeAt = None]
  /\ UNCHANGED <<callVars, dispatches, now>>

\* Every call sleeps or has ended: time passes until the first sleep ends.
SleepersAdvance ==
  LET sleepers == {c \in Waiters : waits[c].pc = "sleep" /\ Len(waits[c].polls) < MaxPolls}
  IN /\ sleepers # {}
     /\ \A c \in Waiters : waits[c].pc # "poll"
     /\ \A c \in sleepers : waits[c].wakeAt[1] > now
     /\ now' = waits[CHOOSE c \in sleepers :
                       \A other \in sleepers :
                         waits[c].wakeAt[1] <= waits[other].wakeAt[1]].wakeAt[1]
     /\ UNCHANGED <<callVars, dispatches, waits>>

\* Every call has ended and the caller takes the outcome of call c; the
\* clock starts anew once no call is left.
ConcurrentCollect(c) ==
  /\ waits[c].pc = "done"
  /\ \A other \in Waiters : waits[other].pc \in {"idle", "done"}
  /\ waits' = [waits EXCEPT ![c] = IdleWait]
  /\ now' = IF \A other \in Waiters \ {c} : waits[other].pc = "idle" THEN 0 ELSE now
  /\ UNCHANGED <<callVars, dispatches>>

(***************************************************************************)
(* Specifications                                                          *)
(***************************************************************************)
ImageOptions ==
  {[quality |-> q, format |-> f, numInferenceSteps |-> i.numInferenceSteps,
    guidanceScale |-> i.guidanceScale, octreeResolution |-> i.octreeResolution] :
     q \in OptQuality, f \in OptFormat, i \in InferenceOptions}

PromptOptions ==
  {[quality |-> q, format |-> f, numInferenceSteps |-> None, guidanceScale |-> None,
    octreeResolution |-> None, prompt |-> p] :
     p \in Prompts, q \in OptQuality, f \in OptFormat}

WaitOptions(intervals, qualities) ==
  {[quality |-> q, timeout |-> t, pollInterval |-> i, onProgress |-> c] :
     i \in intervals, t \in Timeouts, c \in BOOLEAN, q \in qualities}

\* generateAndDownload's options: a texture tier, a super tier, a standard
\* tier or none, with the format given or left to the path.
GenerateAndDownloadOptions(intervals) ==
  {[quality |-> q, format |-> f, numInferenceSteps |-> None, guidanceScale |-> None,
    octreeResolution |-> None, timeout |-> None, pollInterval |-> i,
    onProgress |-> TRUE] :
     q \in {None, Some("high"), Some("super"), Some("super_texture"),
            Some("superplus_texture")},
     f \in {None, Some("glb"), Some("ply")},
     i \in intervals}
    \cup
  \* and one that sets every option of the wait
  {[quality |-> Some("ultra"), format |-> None, numInferenceSteps |-> None,
    guidanceScale |-> None, octreeResolution |-> None, timeout |-> Some(300000),
    pollInterval |-> Some(SlowPoll), onProgress |-> FALSE]}

\* The service reports one of `qualities` where the client looks the quality
\* up, and none where it does not.
Reported(o, qualities) == IF TimeoutFromOptions(o) = None THEN qualities ELSE {None}

StatusReplies(raws) ==
  IF wopts = None THEN {}
  ELSE {StatusOk(wopts[1].generationUid, raw, service[1].quality) : raw \in raws}
         \cup StatusFailures

\* Every response, and every failure, of the transport.
Responses ==
  {HttpResponse(c, b) : c \in ErrorCodes, b \in ErrorBodies}
    \cup {Aborted, FetchFailed, FetchRejected("getaddrinfo ENOTFOUND printpal.io"),
          HttpResponse(200, InvalidJson), HttpResponse(204, InvalidJson),
          HttpResponse(200, JsonNull),
          HttpResponse(200, JsonObject([credits |-> 42]))}

Account ==
  \/ GetCredits
  \/ GetPricing
  \/ GetUsage
  \/ \E w \in Responses : SimpleReply(w)

Submit ==
  \/ \E o \in ImageOptions, fileOk \in BOOLEAN : GenerateFromImage(o, fileOk)
  \/ \E o \in ImageOptions : GenerateFromBuffer(o)
  \/ \E o \in PromptOptions : GenerateFromPrompt(o)
  \/ \E uid \in Handles : \E w \in {GenerateOk(uid)} \cup Failures : GenerateReply(w)

StartWait(options, qualities) ==
  \E uid \in WaitHandles, o \in options :
    \E reported \in Reported(o, qualities) : WaitForCompletion(uid, o, reported)

\* A status request of waitForCompletion takes one of Durations; within the
\* composite calls it is answered at once.
ReplyTimes == IF op = "waitForCompletion" THEN Durations ELSE {0}

Replies(raws) ==
  \/ \E w \in StatusReplies(raws), d \in ReplyTimes : InitialReply(w, d)
  \/ \E w \in StatusReplies(raws), d \in ReplyTimes : PollReply(w, d)

\* The descriptor names the format submitted by generateAndDownload, and any
\* format for a handle the caller brought.
DescriptorReplies ==
  IF pc # "descriptor" THEN {}
  ELSE {DescriptorOk(DownloadUid, f) :
          f \in IF op = "generateAndDownload" THEN {payload[1].format} ELSE Format}
         \cup StatusFailures

Deliver ==
  \/ \E outputPath \in OutputPaths, o \in GenerateAndDownloadOptions({None}),
        fileOk \in BOOLEAN : GenerateAndDownload(outputPath, o, fileOk)
  \/ \E uid \in WaitHandles : \E w \in {GenerateOk(uid)} \cup Failures :
       GenerateAndDownloadReply(w)
  \/ \E uid \in WaitHandles, outputPath \in {None, Some(<<"m", "o", "d", "e", "l">>)},
        o \in {[quality |-> Some("default"), timeout |-> t, pollInterval |-> None,
                onProgress |-> TRUE] : t \in {None, Some(0)}} :
       WaitAndDownload(uid, outputPath, o, None)
  \/ \E uid \in Handles, outputPath \in DownloadPaths : Download(uid, outputPath)
  \/ \E w \in DescriptorReplies : DescriptorReply(w)
  \/ \E f \in {FileFetched, FileForbidden, FileFetchFailed}, writeOk \in BOOLEAN :
       FetchReply(f, writeOk)

\* The client's calls against a service that answers anything.
SomeQualities == {None, Some("default"), Some("ultra")}
SomeStatusQualities == {None, Some("high"), Some("turbo")}

Next ==
  \/ Account
  \/ Submit
  \/ StartWait(WaitOptions(PollIntervals, SomeQualities), SomeStatusQualities)
  \/ Deliver
  \/ Replies(RawStatuses)
  \/ SleepDone
  \/ Finish

Spec == Init /\ [][Next]_vars

\* waitForCompletion with every option and every reported quality, against a
\* service whose generations are finished at the first poll.
ResolveNext ==
  \/ StartWait(WaitOptions({None}, OptQuality), StatusQualities)
  \/ Replies({"completed", "failed"})
  \/ Finish

ResolveSpec == Init /\ [][ResolveNext]_vars

\* The calls of waitForCompletion with a poll interval of SlowPoll ms, every
\* request answered and every sleep ended.
LiveNext ==
  \/ StartWait(WaitOptions(SlowPollIntervals, SomeQualities), SomeStatusQualities)
  \/ Replies(RawStatuses)
  \/ SleepDone
  \/ Finish

LiveSpec == Init /\ [][LiveNext]_vars /\ WF_vars(LiveNext)

\* Two invocations of this.request at once, of a client with the default
\* timeout or one of RequestTime ms, the clock running.
DispatchInit ==
  /\ client \in {Construct([timeout |-> t, apiKey |-> "pp_live_key", baseUrl |-> None]) :
                   t \in {None, Some(0), Some(RequestTime)}}
  /\ op = "idle"
  /\ pc = "idle"
  /\ args = None
  /\ payload = None
  /\ net = NoRequests
  /\ service = None
  /\ wopts = None
  /\ timeout = None
  /\ startTime = None
  /\ elapsed = None
  /\ now = 0
  /\ initialStatus = None
  /\ polls = <<>>
  /\ progress = <<>>
  /\ sleeps = 0
  /\ finalPath = None
  /\ files = <<>>
  /\ wire = None
  /\ result = Running
  /\ dispatches = [i \in Dispatchers |-> IdleDispatch]
  /\ waits = [c \in Waiters |-> IdleWait]

DispatchResponses ==
  {FetchFailed, HttpResponse(200, InvalidJson),
   HttpResponse(200, JsonObject([credits |-> 42])),
   HttpResponse(404, JsonObject(ErrorData(Some("Generation not found"), None, None,
                                          None, None, None)))}

DispatchNext ==
  \/ \E i \in Dispatchers : DispatchRequest(i)
  \/ \E d \in {RequestTime, DEFAULT_TIMEOUT} : Elapse(d)
  \/ \E i \in Dispatchers : TimerFires(i)
  \/ \E i \in Dispatchers : FetchAborted(i)
  \/ \E i \in Dispatchers, w \in DispatchResponses : FetchSettles(i, w)
  \/ \E i \in Dispatchers : BodyRead(i)
  \/ \E i \in Dispatchers : Collect(i)

DispatchSpec == DispatchInit /\ [][DispatchNext]_vars

\* Two calls of waitForCompletion at once, on different handles, each with
\* its own timeout, poll interval and callback, each answered for its handle.
ConcurrentOptions ==
  {[quality |-> Some("default"), timeout |-> Some(RequestTime), pollInterval |-> None,
    onProgress |-> TRUE],
   [quality |-> Some("default"), timeout |-> None, pollInterval |-> None,
    onProgress |-> TRUE],
   [quality |-> Some("default"), timeout |-> None, pollInterval |-> Some(SlowPoll),
    onProgress |-> FALSE]}

ConcurrentReplies(c) ==
  {StatusOk(HandleOf(c), raw, None) : raw \in {"processing", "completed", "failed"}}
    \cup StatusFailures

ConcurrentNext ==
  \/ \E c \in Waiters, o \in ConcurrentOptions : ConcurrentWait(c, o)
  \/ \E c \in Waiters : \E w \in ConcurrentReplies(c) : ConcurrentReply(c, w)
  \/ \E c \in Waiters : ConcurrentWake(c)
  \/ SleepersAdvance
  \/ \E c \in Waiters : ConcurrentCollect(c)

ConcurrentSpec == Init /\ [][ConcurrentNext]_vars

(***************************************************************************)
(* Properties                                                              *)
(***************************************************************************)
SuperFamily == {"super", "super_texture", "superplus", "superplus_texture"}
TextureTiers == {"super_texture", "superplus_texture"}

\* The error was thrown by the client's own validation, not by the service.
LocalValidationError ==
  /\ Threw(result, "ValidationError")
  /\ result.raisedBy \in {"validateQualityFormat", "generateFromPrompt"}

\* The call ended because a request did not yield a success response.
RequestFailed ==
  result.kind = "throw" /\ result.raisedBy \in {"request", "handleErrorResponse"}

LoopTimedOut ==
  Threw(result, "TimeoutError") /\ result.raisedBy = "waitForCompletion"

\* The raw statuses the polls of the loop observed, in order.
PollStatuses == [i \in 1..Len(polls) |-> polls[i].status]

\* The raw statuses of all status answers of the call, in order.
StatusAnswers ==
  (IF initialStatus = None THEN <<>> ELSE <<initialStatus[1].status>>) \o PollStatuses

IsPrefix(s, t) == Len(s) <= Len(t) /\ s = SubSeq(t, 1, Len(s))

PendingProcessingCompleted == <<"pending", "processing", "completed">>

\* C1: the quality/format validation of generateFromImage and generateFromBuffer
\* throws a ValidationError exactly when the format is fbx and the quality is
\* outside the super family, or the quality is a texture tier and the format is
\* neither glb nor obj; for every other pair it throws nothing.
C1_ValidationRejectsExactly ==
  op \in {"generateFromImage", "generateFromBuffer"} =>
    LET quality == OrDefault(args[1].quality, "default")
        format == OrDefault(args[1].format, "stl")
    IN (Threw(result, "ValidationError") /\ result.raisedBy = "validateQualityFormat")
         <=> \/ format = "fbx" /\ quality \notin SuperFamily
             \/ quality \in TextureTiers /\ format \notin {"glb", "obj"}

C1_Witness ==
  /\ op = "generateFromBuffer"
  /\ args[1].quality = Some("ultra")
  /\ args[1].format = Some("fbx")
  /\ Threw(result, "ValidationError")
  /\ result.raisedBy = "validateQualityFormat"

\* C2: generateFromPrompt with a quality of the super family ends with a
\* ValidationError, whatever the format and the prompt, and never returns a
\* GenerationResult or dispatches the submission.
C2_PromptRejectsSuperFamily ==
  (op = "generateFromPrompt" /\ OrDefault(args[1].quality, "default") \in SuperFamily)
    => /\ pc = "done"
       /\ Threw(result, "ValidationError")
       /\ net = NoRequests

C2_Witness ==
  /\ op = "generateFromPrompt"
  /\ args[1].quality = Some("superplus")
  /\ args[1].format = Some("glb")
  /\ args[1].prompt = Some("A cute robot character")
  /\ Threw(result, "ValidationError")

\* C3: when generateFromImage, generateFromBuffer, generateFromPrompt or
\* generateAndDownload ends with a ValidationError of the client's own
\* validation, the call has issued no request: none to /api/generate, no status
\* request, no download request.
C3_ValidationBeforeNetwork ==
  (/\ op \in {"generateFromImage", "generateFromBuffer", "generateFromPrompt",
              "generateAndDownload"}
   /\ LocalValidationError)
    => net = NoRequests /\ payload = None /\ wire = None

C3_Witness ==
  /\ op = "generateAndDownload"
  /\ LocalValidationError
  /\ net = NoRequests

\* The statement C4 was given as: answers pending, processing, completed to the
\* successive status requests of a waitForCompletion with a progress callback
\* give three callbacks and a completed return, whatever the timeout and quality
\* options.
C4_AsStated ==
  (/\ op = "waitForCompletion"
   /\ pc = "done"
   /\ wopts[1].onProgress
   /\ ~RequestFailed
   /\ IsPrefix(StatusAnswers, PendingProcessingCompleted))
    => /\ StatusAnswers = PendingProcessingCompleted
       /\ Len(progress) = 3
       /\ [i \in 1..3 |-> progress[i].status] = PendingProcessingCompleted
       /\ result.kind = "return"
       /\ result.value[1].isCompleted

\* C4: the progress callback is invoked once per poll of the loop, with that
\* poll's snapshot and in order, and never with the answer of the pre-loop
\* status request; when the polls of the loop observe pending, processing,
\* completed, the callback has been invoked exactly three times and the call
\* returns the completed snapshot; a call whose polls observed less of that
\* sequence has ended only because the resolved timeout had elapsed at a check
\* (as it has at the first check when the timeout option is 0).
C4_ThreePollsThreeCallbacks ==
  op = "waitForCompletion" =>
    /\ progress = IF wopts[1].onProgress THEN polls ELSE <<>>
    /\ PollStatuses = PendingProcessingCompleted =>
         /\ pc = "done"
         /\ result = Return(polls[3])
         /\ polls[3].isCompleted
         /\ wopts[1].onProgress => Len(progress) = 3
    /\ (/\ pc = "done"
        /\ ~RequestFailed
        /\ IsPrefix(PollStatuses, PendingProcessingCompleted)
        /\ PollStatuses # PendingProcessingCompleted)
         => LoopTimedOut /\ elapsed[1] >= timeout[1]

C4_Witness ==
  /\ op = "waitForCompletion"
  /\ initialStatus # None
  /\ initialStatus[1].status = "pending"
  /\ PollStatuses = PendingProcessingCompleted
  /\ Len(progress) = 3
  /\ result.kind = "return"

\* C5: in waitForCompletion the poll that observes 'failed' ends the call with a
\* GenerationError carrying the handle the call was given; no status request and
\* no sleep follows it, and the progress callback got the failed snapshot once.
C5_FailedPollEndsWait ==
  (op = "waitForCompletion" /\ \E i \in 1..Len(polls) : polls[i].status = "failed")
    => /\ polls[Len(polls)].status = "failed"
       /\ \A i \in 1..(Len(polls) - 1) : polls[i].status # "failed"
       /\ pc = "done"
       /\ Threw(result, "GenerationError")
       /\ result.error[1].generationUid = Some(args[1].generationUid)
       /\ net.status = Len(polls) + (IF initialStatus = None THEN 0 ELSE 1)
       /\ sleeps = Len(polls) - 1
       /\ wopts[1].onProgress =>
            Cardinality({i \in 1..Len(progress) : progress[i].status = "failed"}) = 1

C5_Witness ==
  /\ op = "waitForCompletion"
  /\ Threw(result, "GenerationError")
  /\ Len(polls) = 2
  /\ wopts[1].onProgress
  /\ progress[2].isFailed

\* What C6 says of every state: a wait that ended without a terminal status
\* observed and without a failed request ended with the loop's TimeoutError, and
\* the loop throws it only at a check where the time elapsed since the loop
\* started has reached the resolved timeout.
C6_TimeoutOnlyWhenElapsed ==
  /\ (/\ op = "waitForCompletion"
      /\ pc = "done"
      /\ ~RequestFailed
      /\ \A i \in 1..Len(polls) : polls[i].status \notin {"completed", "failed"})
       => LoopTimedOut
  /\ LoopTimedOut =>
       /\ elapsed # None
       /\ elapsed[1] = now - startTime[1]
       /\ elapsed[1] >= timeout[1]

\* C6: when every request is answered and every sleep ends, a waitForCompletion
\* ends; if no poll observed 'completed' or 'failed' (and no request failed) it
\* ends with the loop's TimeoutError, which is thrown only at a check where the
\* elapsed time is at least the resolved timeout.
C6_EventuallyTimesOut ==
  /\ [](C6_TimeoutOnlyWhenElapsed)
  /\ (op = "waitForCompletion" /\ pc # "done") ~> (pc = "done")

C6_Witness ==
  /\ op = "waitForCompletion"
  /\ LoopTimedOut
  /\ sleeps = 2
  /\ timeout[1] > 0
  /\ elapsed[1] >= timeout[1]

\* C7: the timeout of waitForCompletion is the timeout option when given (0
\* included), else the table's seconds for the quality option times 1000, else
\* the table's seconds for the quality of the pre-loop status times 1000, else
\* (that status has no quality, or one the table does not hold) 600000.
C7_TimeoutResolution ==
  op = "waitForCompletion" =>
    LET o == args[1].options
    IN IF o.timeout # None THEN timeout = o.timeout /\ initialStatus = None
       ELSE IF o.quality # None
         THEN timeout = Some(GENERATION_TIMEOUTS[o.quality[1]] * 1000)
              /\ initialStatus = None
       ELSE IF initialStatus = None THEN timeout = None /\ polls = <<>>
       ELSE IF initialStatus[1].quality # None
               /\ initialStatus[1].quality[1] \in Quality
         THEN timeout = Some(GENERATION_TIMEOUTS[initialStatus[1].quality[1]] * 1000)
       ELSE timeout = Some(600000)

C7_Witness ==
  /\ op = "waitForCompletion"
  /\ initialStatus # None
  /\ initialStatus[1].quality = Some("superplus")
  /\ timeout = Some(480000)
  /\ polls # <<>>

\* The statement C8 was given as, of every snapshot getStatus built: for
\* 'completed' only isCompleted is true, for 'failed' only isFailed, and
\* isProcessing is true for every other status string.
C8_AsStated ==
  \A s \in {polls[i] : i \in 1..Len(polls)}
             \cup (IF initialStatus = None THEN {} ELSE {initialStatus[1]}) :
    /\ s.isCompleted = (s.status = "completed")
    /\ s.isFailed = (s.status = "failed")
    /\ s.isProcessing = (s.status \notin {"completed", "failed"})

\* C9: a poll that observes a status string outside pending, processing,
\* completed and failed neither returns nor throws a GenerationError; the loop
\* makes its timeout check and, the timeout not reached, sleeps and polls again.
C9_UnknownStatusKeepsPolling ==
  (/\ op = "waitForCompletion"
   /\ polls # <<>>
   /\ polls[Len(polls)].status
        \notin {"pending", "processing", "completed", "failed"})
    => /\ result.kind # "return"
       /\ ~Threw(result, "GenerationError")
       /\ elapsed # None
       /\ IF elapsed[1] >= timeout[1] THEN pc = "done" /\ LoopTimedOut
          ELSE \/ pc = "sleep" /\ sleeps = Len(polls) - 1
               \/ pc = "poll" /\ sleeps = Len(polls)
               \/ pc = "done" /\ RequestFailed /\ sleeps = Len(polls)

C9_Witness ==
  /\ op = "waitForCompletion"
  /\ Len(polls) = 2
  /\ polls[1].status = "queued"
  /\ polls[2].status = "completed"
  /\ result.kind = "return"

\* The error kind C10 gives for a status code.
ErrorKindOf(statusCode) ==
  CASE statusCode = 401 -> "AuthenticationError"
    [] statusCode = 402 -> "InsufficientCreditsError"
    [] statusCode = 404 -> "NotFoundError"
    [] statusCode = 429 -> "RateLimitError"
    [] statusCode = 400 -> "ValidationError"
    [] OTHER -> "PrintPalError"

\* The statement C10 was given as: after a non-success HTTP response the call
\* ends with the error kind of the status code, whatever the body, and the
\* error carries the body's fields as they are (those of {} for a body that
\* does not parse).
C10_AsStated ==
  (wire # None /\ wire[1].kind = "response" /\ ~ResponseOk(wire[1].status))
    => LET data == IF wire[1].body.json = "object" THEN wire[1].body.data[1]
                   ELSE EmptyObject
       IN /\ Threw(result, ErrorKindOf(wire[1].status))
          /\ wire[1].status = 402 =>
               /\ result.error[1].creditsRequired = data.credits_required
               /\ result.error[1].creditsAvailable = data.credits_available
          /\ wire[1].status = 429 => result.error[1].retryAfter = data.retry_after
          /\ wire[1].status = 400 => result.error[1].errors = data.errors

C10_Witness ==
  /\ wire # None
  /\ wire[1] = HttpResponse(402, JsonNull)
  /\ Threw(result, "NetworkError")

\* The statement C11 was given as: every generic API error (a PrintPalError that
\* is of no subclass) carries an HTTP status code and a response body, the one
\* thrown by the dispatcher those of the response it got, and the one thrown by
\* download for a non-success answer of the signed URL as well.
C11_AsStated ==
  Threw(result, "PrintPalError") =>
    /\ result.error[1].statusCode # None
    /\ result.error[1].response # None
    /\ result.raisedBy = "handleErrorResponse" =>
         /\ result.error[1].statusCode = Some(wire[1].status)
         /\ result.error[1].response =
              Some(IF wire[1].body.json = "object" THEN wire[1].body.data[1]
                   ELSE EmptyObject)

C11_Witness ==
  /\ op = "download"
  /\ Threw(result, "PrintPalError")
  /\ result.raisedBy = "download"
  /\ result.error[1].statusCode = None
  /\ result.error[1].response = None
  /\ files = <<>>

\* The file name of a path: what follows its last "/".
FileNameOf(path) ==
  LET slashes == {i \in 1..Len(path) : path[i] = "/"}
  IN SubSeq(path, (IF slashes = {} THEN 0 ELSE CHOOSE i \in slashes : \A j \in slashes : j <= i) + 1,
            Len(path))

\* The extension of a path, without its dot: what follows the last dot of the
\* file name, a dot that starts the file name not counted; <<>> when none.
ExtensionOf(path) ==
  LET file == FileNameOf(path)
      dots == {i \in 2..Len(file) : file[i] = "."}
  IN IF dots = {} THEN <<>>
     ELSE SubSeq(file, (CHOOSE i \in dots : \A j \in dots : j <= i) + 1, Len(file))

\* C12: download's final path is "model_" + the first 8 characters of the
\* handle + "." + format when no path (or an empty one) is given; the path +
\* "." + format when the path has no extension; the path with its last
\* extension replaced by "." + format when the lower-cased extension differs
\* from the format; and the path itself when it equals the format.
C12_DownloadPath ==
  finalPath # None =>
    LET format == Chars(wire[1].body.data[1].format)
        path == args[1].outputPath
        ext == ExtensionOf(path[1])
    IN finalPath[1] =
         IF path = None \/ path[1] = <<>> THEN
           <<"m", "o", "d", "e", "l", "_">>
             \o [i \in 1..(IF Len(DownloadUid) < 8 THEN Len(DownloadUid) ELSE 8) |->
                   DownloadUid[i]]
             \o <<".">> \o format
         ELSE IF ext = <<>> THEN path[1] \o <<".">> \o format
         ELSE IF ToLowerCase(ext) # format
           THEN SubSeq(path[1], 1, Len(path[1]) - Len(ext) - 1) \o <<".">> \o format
         ELSE path[1]

C12_Witness ==
  /\ op = "download"
  /\ args[1].generationUid = <<"a", "b", "c", "d", "e", "f", "1", "2", "3", "4">>
  /\ args[1].outputPath = Some(<<"m", "o", "d", "e", "l", ".", "o", "b", "j">>)
  /\ finalPath = Some(<<"m", "o", "d", "e", "l", ".", "g", "l", "b">>)
  /\ result = Return(finalPath[1])
  /\ files = <<finalPath[1]>>

\* The last status poll of the call observed "completed".
LastPollCompleted == polls # <<>> /\ polls[Len(polls)].status = "completed"

\* C13: in waitAndDownload and generateAndDownload the steps run in the order
\* submit, wait, download: status is polled only after the one submission
\* succeeded, the descriptor is requested only once a status poll of the call
\* observed "completed", and the file is fetched only after the descriptor;
\* when the wait ends with an error no descriptor is requested, nothing is
\* fetched and no file is written; and generateAndDownload hands the wait its
\* own timeout and onProgress, its pollInterval or 5000, its quality or
\* "default", and the handle the submission returned.
C13_WaitThenDownload ==
  op \in {"waitAndDownload", "generateAndDownload"} =>
    /\ net.download = IF LastPollCompleted THEN 1 ELSE 0
    /\ net.fetch <= net.download
    /\ files # <<>> => net.fetch = 1
    /\ pc \in {"descriptor", "fetch"} => LastPollCompleted
    /\ op = "generateAndDownload" /\ net.status > 0 => net.generate = 1
    /\ result.kind = "throw" /\ ~LastPollCompleted =>
         net.download = 0 /\ net.fetch = 0 /\ files = <<>> /\ finalPath = None
    /\ op = "generateAndDownload" /\ wopts # None =>
         LET o == args[1].options
         IN /\ wopts[1].timeout = o.timeout
            /\ wopts[1].onProgress = o.onProgress
            /\ wopts[1].pollInterval =
                 IF o.pollInterval = None THEN Some(5000) ELSE o.pollInterval
            /\ wopts[1].quality = IF o.quality = None THEN Some("default") ELSE o.quality
            /\ pc = "poll" /\ polls = <<>> =>
                 wopts[1].generationUid = wire[1].body.data[1].generation_uid

C13_Witness ==
  /\ op = "generateAndDownload"
  /\ args[1].options.onProgress = FALSE
  /\ wopts # None
  /\ wopts[1].pollInterval = Some(SlowPoll)
  /\ PollStatuses = <<"processing", "completed">>
  /\ progress = <<>>
  /\ net = [status |-> 2, api |-> 0, generate |-> 1, download |-> 1, fetch |-> 1]
  /\ result.kind = "return"
  /\ files = <<finalPath[1]>>

\* C14: the format generateAndDownload submits is the format option when the
\* caller gave one; otherwise the lower-cased extension of the destination
\* path when that is one of stl, glb, obj, ply, fbx; otherwise stl.  It is
\* the format the local validation judges and, when that passes, the one posted.
C14_SubmittedFormat ==
  op = "generateAndDownload" =>
    LET o == args[1].options
        path == args[1].outputPath
        lower == IF path = None THEN <<>> ELSE ToLowerCase(ExtensionOf(path[1]))
        expected ==
          IF o.format # None THEN o.format[1]
          ELSE IF lower \in {Chars(f) : f \in {"stl", "glb", "obj", "ply", "fbx"}}
            THEN CHOOSE f \in Format : Chars(f) = lower
          ELSE "stl"
        quality == IF o.quality = None THEN "default" ELSE o.quality[1]
    IN /\ payload # None => payload[1].format = expected
       /\ payload = None /\ result.raisedBy # "readFileSync" =>
            /\ LocalValidationError
            /\ \/ quality \in TextureTiers /\ expected \notin {"glb", "obj"}
               \/ expected = "fbx" /\ quality \notin SuperFamily

C14_Witness ==
  /\ op = "generateAndDownload"
  /\ args[1].options.format = None
  /\ args[1].outputPath = Some(<<"o", "u", "t", "/", "m", ".", "G", "L", "B">>)
  /\ payload # None
  /\ payload[1].format = "glb"
  /\ payload[1].quality = "super_texture"
  /\ net.generate = 1

\* C15: the payload of an image submission holds num_inference_steps,
\* guidance_scale and octree_resolution exactly when the quality is not of the
\* super family: for a super-family quality all three are absent even when
\* the caller supplied them, and otherwise all three are present, each with
\* the caller's value or its default 20, 5.0, 256.
C15_InferenceFields ==
  op \in {"generateFromImage", "generateFromBuffer", "generateAndDownload"}
    /\ payload # None =>
    LET o == IF op = "generateAndDownload" THEN args[1].options ELSE args[1]
        form == payload[1]
    IN /\ form.image
       /\ form.quality = (IF o.quality = None THEN "default" ELSE o.quality[1])
       /\ IF form.quality \in SuperFamily THEN
            /\ form.num_inference_steps = None
            /\ form.guidance_scale = None
            /\ form.octree_resolution = None
          ELSE
            /\ form.num_inference_steps =
                 IF o.numInferenceSteps = None THEN <<20>> ELSE o.numInferenceSteps
            /\ form.guidance_scale =
                 IF o.guidanceScale = None THEN <<5>> ELSE o.guidanceScale
            /\ form.octree_resolution =
                 IF o.octreeResolution = None THEN <<256>> ELSE o.octreeResolution

C15_Witness ==
  /\ op = "generateFromBuffer"
  /\ args[1].quality = Some("superplus")
  /\ args[1].numInferenceSteps # None
  /\ args[1].guidanceScale # None
  /\ args[1].octreeResolution # None
  /\ payload # None
  /\ payload[1].num_inference_steps = None
  /\ payload[1].guidance_scale = None
  /\ payload[1].octree_resolution = None
  /\ pc = "generate"

\* The three exits of the loop: the last poll observed "completed" and is
\* returned; it observed "failed" and GenerationError is thrown; it observed
\* neither, the resolved timeout had elapsed, and TimeoutError is thrown.
ExitCompleted == LastPollCompleted /\ result = Return(polls[Len(polls)])

ExitFailed ==
  /\ polls # <<>>
  /\ polls[Len(polls)].status = "failed"
  /\ Threw(result, "GenerationError")
  /\ result.raisedBy = "waitForCompletion"

ExitTimeout ==
  /\ polls # <<>>
  /\ polls[Len(polls)].status \notin {"completed", "failed"}
  /\ elapsed # None /\ timeout # None /\ elapsed[1] >= timeout[1]
  /\ LoopTimedOut

\* The fourth: a status request of the call, the one before the loop or one
\* of the loop, did not yield a success response, and its error is the call's.
ExitRequestFailed ==
  /\ wire # None
  /\ Request(wire[1]).kind = "throw"
  /\ result = Request(wire[1])

StatusRequestFailed ==
  pc = "done" /\ RequestFailed /\ wopts # None /\ net.download = 0

\* C18: a dispatch is one network round trip, whatever its outcome.  Each of
\* getCredits, getPricing and getUsage issues one request and ends as that
\* request does; a submission issues one request when its local checks pass
\* and none otherwise; a wait has issued one status request per status answer
\* it got, one more while it awaits an answer or when a status request
\* failed, and never one after a failure; a download requests the descriptor
\* once and fetches the file at most once; and every error of a request is
\* the error of the last response, raised as the call's own.
C18_OneRoundTrip ==
  /\ op \in {"getCredits", "getPricing", "getUsage"} =>
       /\ net = [NoRequests EXCEPT !.api = 1]
       /\ pc = "done" => result = Request(wire[1])
  /\ op \notin {"getCredits", "getPricing", "getUsage"} => net.api = 0
  /\ net.generate = IF payload # None THEN 1 ELSE 0
  /\ net.status = Len(StatusAnswers)
                    + (IF pc \in {"initial", "poll"} THEN 1 ELSE 0)
                    + (IF StatusRequestFailed THEN 1 ELSE 0)
  /\ net.download <= 1
  /\ net.fetch <= net.download
  /\ op = "download" => net.download = 1
  /\ RequestFailed => pc = "done" /\ result = Request(wire[1])

C18_Witness ==
  /\ op = "getUsage"
  /\ pc = "done"
  /\ wire = Some(FetchFailed)
  /\ Threw(result, "NetworkError")
  /\ net.api = 1

\* C19: on every exit path of the dispatcher (parsed result, mapped HTTP
\* error, TimeoutError, NetworkError) the timer the invocation armed is no
\* longer pending when the invocation ends: it was cleared, or it has fired.
\* It is pending only while the fetch is awaited, and an invocation is only
\* ever aborted by its own timer, after this.timeout ms of its own.
C19_TimerCleared ==
  \A i \in Dispatchers :
    LET d == dispatches[i]
    IN /\ d.phase = "ended" => d.timer \in {"cleared", "fired"}
       /\ d.timer = "armed" => d.phase = "fetch"
       /\ d.phase = "ended" /\ d.outcome.kind = "return" => d.timer = "cleared"
       /\ d.phase = "ended" /\ d.outcome.raisedBy = "handleErrorResponse" =>
            d.timer = "cleared"
       /\ d.aborted =>
            /\ d.abortedBy = Some(i)
            /\ d.timer = "fired"
            /\ now >= d.armedAt[1] + client.timeout
       /\ d.phase = "ended" =>
            (Threw(d.outcome, "TimeoutError") <=> d.timer = "fired")

C19_Witness ==
  /\ dispatches["first"].phase = "ended"
  /\ Threw(dispatches["first"].outcome, "TimeoutError")
  /\ dispatches["first"].timer = "fired"
  /\ dispatches["second"].phase = "ended"
  /\ Threw(dispatches["second"].outcome, "NotFoundError")
  /\ dispatches["second"].timer = "cleared"
  /\ ~dispatches["second"].aborted

\* The statement C20 was given as: an invocation of the dispatcher whose
\* timeout (this.timeout ms from its start) has elapsed before it returned
\* does not return a result; it ends with TimeoutError.
C20_AsStated ==
  \A i \in Dispatchers :
    LET d == dispatches[i]
    IN d.phase = "ended" /\ d.endedAt[1] - d.armedAt[1] > client.timeout =>
         Threw(d.outcome, "TimeoutError")

C20_Witness ==
  /\ client.timeout = DEFAULT_TIMEOUT
  /\ dispatches["first"].phase = "ended"
  /\ dispatches["first"].armedAt = Some(0)
  /\ dispatches["first"].endedAt = Some(DEFAULT_TIMEOUT + RequestTime)
  /\ dispatches["first"].timer = "cleared"
  /\ dispatches["first"].outcome = Return([credits |-> 42])

\* What call c shows is what its own handle's answers and its own options
\* make it show: its timeout is resolved from its options, its polls are
\* answers for its handle, its callback got exactly its polls (or nothing
\* without a callback), it went on polling only after an answer that was
\* neither terminal nor past its own timeout, and it ended as its last
\* answer has it end.
OwnOutcome(c) ==
  LET call == waits[c]
      o == call.options[1]
      n == Len(call.polls)
      own == IF o.timeout # None THEN o.timeout[1]
             ELSE GENERATION_TIMEOUTS[o.quality[1]] * 1000
  IN call.pc # "idle" =>
       /\ call.generationUid = Some(HandleOf(c))
       /\ call.timeout = Some(own)
       /\ Len(call.elapsed) = n
       /\ \A k \in 1..n : call.polls[k].generationUid = HandleOf(c)
       /\ call.progress = IF o.onProgress THEN call.polls ELSE <<>>
       /\ \A k \in 1..n :
            k < n \/ call.pc \in {"sleep", "poll"} =>
              /\ call.polls[k].status \notin {"completed", "failed"}
              /\ call.elapsed[k] < own
       /\ call.pc # "done" => call.result = Running
       /\ call.pc = "done" =>
            IF Request(call.wire[1]).kind = "throw" THEN call.result = Request(call.wire[1])
            ELSE IF call.polls[n].status = "completed" THEN call.result = Return(call.polls[n])
            ELSE IF call.polls[n].status = "failed" THEN
              /\ Threw(call.result, "GenerationError")
              /\ call.result.error[1].generationUid = Some(HandleOf(c))
            ELSE
              /\ Threw(call.result, "TimeoutError")
              /\ call.result.raisedBy = "waitForCompletion"
              /\ call.elapsed[n] >= own

\* C16: the client keeps no state across calls.  No step of any call changes
\* the client's apiKey, baseUrl or timeout, and in every interleaving of two
\* calls of waitForCompletion on different handles each call's outcome and
\* its sequence of progress callbacks are those of its own handle's answers
\* and its own options.
C16_CallsIndependent ==
  /\ [](\A c \in Waiters : OwnOutcome(c))
  /\ [][client' = client]_vars

C16_Witness ==
  /\ waits["first"].pc = "done"
  /\ waits["first"].options[1].timeout = Some(RequestTime)
  /\ Threw(waits["first"].result, "TimeoutError")
  /\ Len(waits["first"].progress) = 2
  /\ waits["second"].pc = "done"
  /\ waits["second"].options[1].timeout = None
  /\ waits["second"].startTime = waits["first"].startTime
  /\ Len(waits["second"].polls) = 2
  /\ waits["second"].progress = <<>>
  /\ waits["second"].result = Return(waits["second"].polls[2])

\* The first of the body's message and error that is a non-empty string.
BodyMessage(body) ==
  LET data == IF body.json = "object" THEN body.data[1] ELSE EmptyObject
  IN IF data.message # None /\ data.message[1] # "" THEN data.message[1]
     ELSE IF data.error # None /\ data.error[1] # "" THEN data.error[1]
     ELSE "Unknown error"

\* C21: the dispatcher classifies failures.  The AbortError of the timer's
\* abort ends the call with TimeoutError, and nothing else does; any other
\* exception of the transport ends it with a NetworkError whose message holds
\* the exception's; and the error the status-code mapping raised is the
\* call's error as it was raised, of the kind of the status code, with its
\* status code and the body's message, never a NetworkError or TimeoutError.
C21_FailureClasses ==
  (pc = "done" /\ op \in {"getCredits", "getPricing", "getUsage"}) \/ RequestFailed =>
    LET w == wire[1]
    IN /\ w.kind = "abort" =>
            /\ Threw(result, "TimeoutError")
            /\ result.error[1].message = "Request timed out"
       /\ Threw(result, "TimeoutError") => w.kind = "abort"
       /\ w.kind = "error" =>
            /\ Threw(result, "NetworkError")
            /\ result.error[1].message = "Network error: " \o w.message
       /\ w.kind = "response" /\ ~ResponseOk(w.status) /\ w.body.json # "null" =>
            /\ Threw(result, ErrorKindOf(w.status))
            /\ result.raisedBy = "handleErrorResponse"
            /\ result.error[1].statusCode = Some(w.status)
            /\ result.error[1].message = BodyMessage(w.body)
       /\ result.raisedBy = "handleErrorResponse" =>
            /\ w.kind = "response" /\ ~ResponseOk(w.status)
            /\ result.error[1].name \notin {"NetworkError", "TimeoutError"}

C21_Witness ==
  /\ op = "getPricing"
  /\ pc = "done"
  /\ wire = Some(FetchRejected("getaddrinfo ENOTFOUND printpal.io"))
  /\ Threw(result, "NetworkError")
  /\ result.error[1].message = "Network error: getaddrinfo ENOTFOUND printpal.io"
  /\ result.raisedBy = "request"

\* waitForCompletion was called with neither a timeout nor a quality.
NeitherGiven == wopts[1].timeout = None /\ wopts[1].quality = None

\* The statement C22 was given as, for a call with a progress callback that
\* has ended: the status requests of the call are one more than the
\* invocations of the callback.
C22_AsStated ==
  op = "waitForCompletion" /\ pc = "done" /\ NeitherGiven /\ wopts[1].onProgress =>
    net.status = Len(progress) + 1

\* C22: a call of waitForCompletion with neither timeout nor quality issues
\* one status request before the loop, and no other call does.  Its answer is
\* not passed to the callback and not tested for completed or failed: the loop
\* polls whatever it says, startTime is taken when it has arrived, and the
\* callback is invoked once per answered request of the loop.  The requests
\* of the call are so those invocations plus one, plus the request of the loop
\* that is awaited or has failed, if any.  When the pre-loop request fails the
\* call ends with its error: it is the call's only request and no timeout is
\* resolved.
C22_PreLoopRequest ==
  op = "waitForCompletion" =>
    /\ initialStatus # None \/ pc = "initial" => NeitherGiven
    /\ NeitherGiven /\ pc # "initial" /\ initialStatus = None =>
         /\ pc = "done"
         /\ RequestFailed
         /\ result = Request(wire[1])
         /\ net.status = 1
         /\ timeout = None /\ startTime = None
         /\ polls = <<>> /\ progress = <<>>
    /\ pc = "initial" =>
         /\ net.status = 1
         /\ timeout = None /\ startTime = None
         /\ polls = <<>> /\ progress = <<>>
    /\ initialStatus # None =>
         /\ timeout # None /\ startTime # None
         /\ pc = "poll" /\ polls = <<>> => startTime[1] = now /\ result = Running
         /\ progress = IF wopts[1].onProgress THEN polls ELSE <<>>
         /\ \A i \in 1..Len(progress) : progress[i] = polls[i]
         /\ net.status = Len(polls) + 1
                           + (IF pc = "poll" \/ (pc = "done" /\ RequestFailed) THEN 1 ELSE 0)
         /\ wopts[1].onProgress /\ pc = "done" /\ ~RequestFailed =>
              net.status = Len(progress) + 1

C22_Witness ==
  /\ op = "waitForCompletion"
  /\ NeitherGiven
  /\ wopts[1].onProgress
  /\ initialStatus # None
  /\ initialStatus[1].status = "completed"
  /\ startTime = Some(RequestTime)
  /\ PollStatuses = <<"processing", "completed">>
  /\ Len(progress) = 2
  /\ net.status = 3
  /\ result = Return(polls[2])

\* The resolved timeout had elapsed when the last answer of the loop arrived
\* (the clock stands still from then until the call is taken off).
OverdueAtLastPoll ==
  startTime # None /\ timeout # None /\ now - startTime[1] >= timeout[1]

\* C23: in each iteration of the loop the terminal checks come before the
\* timeout check.  A call that came to its loop and ended otherwise than by a
\* failed request has polled at least once, with timeout 0 as well; a poll
\* that observes "completed" makes the call return it and one that observes
\* "failed" makes it throw GenerationError, also when the resolved timeout has
\* elapsed by then; and TimeoutError is thrown only right after a poll that
\* observed neither, with the timeout elapsed.
C23_TerminalChecksFirst ==
  op = "waitForCompletion" /\ pc = "done" /\ ~RequestFailed =>
    /\ polls # <<>>
    /\ LET last == polls[Len(polls)]
       IN /\ last.status = "completed" => result = Return(last)
          /\ last.status = "failed" =>
               /\ Threw(result, "GenerationError")
               /\ result.raisedBy = "waitForCompletion"
          /\ LoopTimedOut =>
               /\ last.status \notin {"completed", "failed"}
               /\ OverdueAtLastPoll
               /\ elapsed = Some(now - startTime[1])
          /\ last.status \notin {"completed", "failed"} => LoopTimedOut

C23_Witness ==
  /\ op = "waitForCompletion"
  /\ pc = "done"
  /\ wopts[1].timeout = Some(0)
  /\ Len(polls) = 1
  /\ polls[1].status = "failed"
  /\ OverdueAtLastPoll
  /\ now - startTime[1] = RequestTime
  /\ Threw(result, "GenerationError")

\* The last thing the transport delivered is a response of a success status
\* whose body does not parse as JSON.
UnparsableSuccess ==
  /\ wire # None
  /\ wire[1].kind = "response"
  /\ wire[1].status >= 200 /\ wire[1].status <= 299
  /\ wire[1].body.json = "invalid"

\* C24: a dispatch answered with a success status and a body that does not
\* parse as JSON ends with a NetworkError, thrown by the catch block of the
\* dispatcher; the call it belongs to ends with that error and returns
\* nothing, whichever operation it is.
C24_UnparsableBody ==
  UnparsableSuccess =>
    /\ pc = "done"
    /\ result.kind = "throw"
    /\ result.value = None
    /\ Threw(result, "NetworkError")
    /\ result.raisedBy = "request"
    /\ files = <<>>

C24_Witness ==
  /\ op = "waitAndDownload"
  /\ UnparsableSuccess
  /\ net.download = 1
  /\ Threw(result, "NetworkError")
  /\ finalPath = None

\* C25: generateAndDownload with a texture quality, no format option, and a
\* destination that is absent or whose lower-cased extension is neither glb
\* nor obj ends with the ValidationError of the quality/format validation,
\* which judges the inferred or defaulted format as it does an explicit one;
\* nothing was read, posted, polled or written before.
C25_InferredFormatValidated ==
  (/\ op = "generateAndDownload"
   /\ args[1].options.quality # None
   /\ args[1].options.quality[1] \in TextureTiers
   /\ args[1].options.format = None
   /\ \/ args[1].outputPath = None
      \/ ToLowerCase(ExtensionOf(args[1].outputPath[1]))
           \notin {<<"g", "l", "b">>, <<"o", "b", "j">>})
    => /\ pc = "done"
       /\ Threw(result, "ValidationError")
       /\ result.raisedBy = "validateQualityFormat"
       /\ result.error[1].message =
            "Texture generation (" \o args[1].options.quality[1]
              \o ") only supports GLB and OBJ formats"
       /\ net = NoRequests
       /\ payload = None
       /\ wire = None
       /\ files = <<>>

C25_Witness ==
  /\ op = "generateAndDownload"
  /\ args[1].options.quality = Some("superplus_texture")
  /\ args[1].options.format = None
  /\ args[1].outputPath = Some(<<"m", ".", "f", "b", "x">>)
  /\ Threw(result, "ValidationError")
  /\ net = NoRequests

\* C26: download writes to local storage at most once per call, and only
\* after the descriptor request and the fetch of the signed URL have both
\* succeeded: a file is there exactly when the call returned, it is the file
\* of the final path, and the path returned is that path.  When the
\* descriptor request failed, or the signed URL answered a non-success status
\* or its fetch threw, nothing is written and no path is returned.
C26_WriteOnlyOnSuccess ==
  op \in {"download", "waitAndDownload", "generateAndDownload"} =>
    /\ Len(files) <= 1
    /\ files # <<>> <=> (pc = "done" /\ result.kind = "return")
    /\ files # <<>> =>
         /\ files = <<finalPath[1]>>
         /\ result = Return(finalPath[1])
         /\ net.download = 1 /\ net.fetch = 1
         /\ wire[1].kind = "response" /\ ResponseOk(wire[1].status)
    /\ net.fetch = 0 => files = <<>>
    /\ result.kind = "throw" => files = <<>> /\ result.value = None
    /\ result.kind = "throw" /\ net.download = 1 /\ net.fetch = 0 =>
         RequestFailed /\ finalPath = None

C26_Witness ==
  /\ op = "download"
  /\ pc = "done"
  /\ net.download = 1
  /\ net.fetch = 1
  /\ finalPath # None
  /\ Threw(result, "TypeError")
  /\ result.raisedBy = "fetch"
  /\ files = <<>>

====
